---- MODULE Spec2Model ----
(***************************************************************************)
(* Model of realm-library/src/main/cpp/util.hpp: the parameter checks      *)
(* (TableIsValid, RowIsValid, TypeValid, ColIsNullable and the macros in   *)
(* front of them), JStringAccessor's two conversions, and the scalar       *)
(* helpers to_jlong_or_not_found, to_milliseconds and from_milliseconds.   *)
(***************************************************************************)
EXTENDS Integers, Sequences, FiniteSets, TLC

(***************************************************************************)
(* Bounds of the model.                                                    *)
(***************************************************************************)
\* Number of tables and of objects the engine holds.
NumTables == 2
NumObjs == 2
\* Width, in bits, that stands for the 64 bits of size_t and jlong.
WordBits == 12
\* Stand-in for realm::Table::max_string_size (util.hpp line 219), and how
\* far past it the accessor sizes go.
max_string_size == 3
MaxOver == 2

Tables == 1..NumTables
Objs == 1..NumObjs
\* A null realm::Obj* (util.hpp line 140 compares rowPtr with NULL).
NULL == 0
RowPtrs == {NULL} \cup Objs

(***************************************************************************)
(* ExceptionKind, util.hpp lines 72-88 (the kinds the checks raise).       *)
(***************************************************************************)
IllegalArgument == "IllegalArgument"
IllegalState == "IllegalState"

(***************************************************************************)
(* realm::DataType values the checks compare against.                      *)
(***************************************************************************)
type_Int == 0
type_String == 2
type_Link == 12
type_LinkList == 13
ColTypes == {type_Int, type_String, type_Link, type_LinkList}

\* The columns of a table: every primitive type as a plain and as a list
\* column, nullable or not; link columns (never lists) and link-list columns
\* (always lists) with either nullable attribute.  A column key is the
\* descriptor's position in Schema.
Schema ==
    << [type |-> type_Int,      list |-> FALSE, nullable |-> FALSE, name |-> "c1"],
       [type |-> type_Int,      list |-> FALSE, nullable |-> TRUE,  name |-> "c2"],
       [type |-> type_Int,      list |-> TRUE,  nullable |-> FALSE, name |-> "c3"],
       [type |-> type_Int,      list |-> TRUE,  nullable |-> TRUE,  name |-> "c4"],
       [type |-> type_String,   list |-> FALSE, nullable |-> FALSE, name |-> "c5"],
       [type |-> type_String,   list |-> FALSE, nullable |-> TRUE,  name |-> "c6"],
       [type |-> type_String,   list |-> TRUE,  nullable |-> FALSE, name |-> "c7"],
       [type |-> type_String,   list |-> TRUE,  nullable |-> TRUE,  name |-> "c8"],
       [type |-> type_Link,     list |-> FALSE, nullable |-> FALSE, name |-> "c9"],
       [type |-> type_Link,     list |-> FALSE, nullable |-> TRUE,  name |-> "c10"],
       [type |-> type_LinkList, list |-> TRUE,  nullable |-> FALSE, name |-> "c11"],
       [type |-> type_LinkList, list |-> TRUE,  nullable |-> TRUE,  name |-> "c12"] >>
ColKeys == DOMAIN Schema

\* The engine's introspection calls on an attached table.
get_column_type(pTable, col) == Schema[col].type
get_column_name(pTable, col) == Schema[col].name
is_list(pTable, col) == Schema[col].list
is_nullable(pTable, col) == Schema[col].nullable

VARIABLES
    CHECK_PARAMETERS, \* the build's setting of the macro, 0 or 1
    attached,         \* attached[t]: the TableRef of table t is non-empty
    valid,            \* valid[o]: realm::Obj o answers is_valid() with true
    validated,        \* handles a liveness check has answered true for so far
    acc,              \* the fields of a JStringAccessor
    last              \* the last call: its name, arguments and outcome

vars == <<CHECK_PARAMETERS, attached, valid, validated, acc, last>>

(***************************************************************************)
(* The JNI environment of one call: the Java exceptions ThrowException     *)
(* made pending, the lines Log::e wrote and the engine calls made.         *)
(***************************************************************************)
Env0 == [thrown |-> <<>>, log |-> <<>>, queries |-> <<>>]

\* ThrowException(env, kind, classStr): makes a Java exception pending and
\* returns to its caller.
ThrowException(env, exception, classStr) ==
    [env EXCEPT !.thrown = Append(@, [kind |-> exception, msg |-> classStr])]

\* realm::jni_util::Log::e
LogE(env, line) == [env EXCEPT !.log = Append(@, line)]

Query(env, calls) == [env EXCEPT !.queries = @ \o calls]

Return(env, value) ==
    [ret |-> value, thrown |-> env.thrown, log |-> env.log, queries |-> env.queries]

(***************************************************************************)
(* TableIsValid, util.hpp lines 129-136.                                   *)
(***************************************************************************)
TableIsValid(table) ==
    LET env == IF ~attached[table]
               THEN ThrowException(LogE(Env0, "Table is no longer attached!"),
                                   IllegalState,
                                   <<"Table is no longer valid to operate on.">>)
               ELSE Env0
    IN  Return(env, TRUE)

(***************************************************************************)
(* RowIsValid, util.hpp lines 138-147.                                     *)
(***************************************************************************)
RowIsValid_cached(rowPtr) ==
    LET v == (rowPtr # NULL /\ (valid[rowPtr] \/ <<"row", rowPtr>> \in validated))
        env == IF ~v
               THEN ThrowException(LogE(Env0, "Row %1 is no longer attached!"),
                        IllegalState,
                        <<"Object is no longer valid to operate on. Was it deleted by another thread?">>)
               ELSE Env0
    IN  Return(env, v)

RowIsValid_throws_twice(rowPtr) ==
    LET v == (rowPtr # NULL /\ valid[rowPtr])
        msg == <<"Object is no longer valid to operate on. Was it deleted by another thread?">>
        env == IF ~v
               THEN ThrowException(ThrowException(
                        LogE(Env0, "Row %1 is no longer attached!"),
                        IllegalState, msg), IllegalState, msg)
               ELSE Env0
    IN  Return(env, v)

RowIsValid(rowPtr) ==
    LET v == (rowPtr # NULL /\ valid[rowPtr])
        env == IF ~v
               THEN ThrowException(LogE(Env0, "Row %1 is no longer attached!"),
                        IllegalState,
                        <<"Object is no longer valid to operate on. Was it deleted by another thread?">>)
               ELSE Env0
    IN  Return(env, v)

(***************************************************************************)
(* TypeValid, util.hpp lines 149-160.                                      *)
(***************************************************************************)
TypeValid_wrong_column(pTable, columnIndex, expectColType) ==
    LET col_key == columnIndex
        colType == get_column_type(pTable, col_key)
        other == IF col_key = 1 THEN 2 ELSE 1
    IN  IF colType # expectColType
        THEN Return(ThrowException(
                        Query(LogE(Env0, "Expected columnType %1, but got %2."),
                              <<"get_column_type", "get_column_name">>),
                        IllegalArgument,
                        <<"ColumnType of '", get_column_name(pTable, other),
                          "' is invalid.">>),
                    FALSE)
        ELSE Return(Query(Env0, <<"get_column_type">>), TRUE)

TypeValid(pTable, columnIndex, expectColType) ==
    LET col_key == columnIndex
        colType == get_column_type(pTable, col_key)
    IN  IF colType # expectColType
        THEN Return(ThrowException(
                        Query(LogE(Env0, "Expected columnType %1, but got %2."),
                              <<"get_column_type", "get_column_name">>),
                        IllegalArgument,
                        <<"ColumnType of '", get_column_name(pTable, col_key),
                          "' is invalid.">>),
                    FALSE)
        ELSE Return(Query(Env0, <<"get_column_type">>), TRUE)

(***************************************************************************)
(* ColIsNullable, util.hpp lines 162-189.                                  *)
(***************************************************************************)
NotNullableList(pTable, col, queries) ==
    Return(ThrowException(Query(Env0, queries), IllegalArgument,
               <<"RealmList(", get_column_name(pTable, col), ") is not nullable.">>),
           FALSE)

NotNullableField(pTable, col, queries) ==
    Return(ThrowException(
               Query(LogE(Env0, "Expected nullable column type"), queries),
               IllegalArgument,
               <<"This field(", get_column_name(pTable, col), ") is not nullable.">>),
           FALSE)

ColIsNullable_no_list_check(pTable, columnKey) ==
    LET col == columnKey
        colType == get_column_type(pTable, col)
    IN  IF colType = type_Link
        THEN Return(Query(Env0, <<"get_column_type">>), TRUE)
        ELSE IF colType = type_LinkList
        THEN NotNullableList(pTable, col, <<"get_column_type", "get_column_name">>)
        ELSE IF is_nullable(pTable, col)
        THEN Return(Query(Env0, <<"get_column_type", "is_nullable">>), TRUE)
        ELSE NotNullableField(pTable, col,
                 <<"get_column_type", "is_nullable", "get_column_name">>)

ColIsNullable(pTable, columnKey) ==
    LET col == columnKey
        colType == get_column_type(pTable, col)
    IN  IF colType = type_Link
        THEN Return(Query(Env0, <<"get_column_type">>), TRUE)
        ELSE IF colType = type_LinkList
        THEN NotNullableList(pTable, col, <<"get_column_type", "get_column_name">>)
        ELSE IF is_list(pTable, col)
        THEN NotNullableList(pTable, col,
                 <<"get_column_type", "is_list", "get_column_name">>)
        ELSE IF is_nullable(pTable, col)
        THEN Return(Query(Env0, <<"get_column_type", "is_list", "is_nullable">>), TRUE)
        ELSE NotNullableField(pTable, col,
                 <<"get_column_type", "is_list", "is_nullable", "get_column_name">>)

(***************************************************************************)
(* The check macros, util.hpp lines 98-111.                                *)
(***************************************************************************)
TABLE_VALID(ptr) == TableIsValid(ptr)

ROW_VALID_gated(ptr) ==
    IF CHECK_PARAMETERS # 0 THEN RowIsValid(ptr) ELSE Return(Env0, TRUE)

ROW_VALID(ptr) == RowIsValid(ptr)

TYPE_VALID(ptr, col, type) ==
    IF CHECK_PARAMETERS # 0 THEN TypeValid(ptr, col, type) ELSE Return(Env0, TRUE)

COL_NULLABLE(ptr, columnKey) ==
    IF CHECK_PARAMETERS # 0 THEN ColIsNullable(ptr, columnKey) ELSE Return(Env0, TRUE)

(***************************************************************************)
(* Calls of the checks, and what the engine does between them.             *)
(***************************************************************************)
NoCall ==
    [op |-> "none", args |-> <<>>, out |-> Return(Env0, TRUE),
     live |-> TRUE, engineUnchanged |-> TRUE]

NullAccessor == [m_is_null |-> TRUE, m_data |-> <<>>, m_size |-> 0]

Raised(out) == out.thrown # <<>>

\* A call of a check that leaves the engine as `a' and `v'.
Checked(op, args, out, live, handle, a, v) ==
    /\ attached' = a
    /\ valid' = v
    /\ last' = [op |-> op, args |-> args, out |-> out, live |-> live,
                engineUnchanged |-> (attached' = attached /\ valid' = valid)]
    /\ validated' = IF handle # <<>> /\ ~Raised(out)
                    THEN validated \cup {handle} ELSE validated
    /\ UNCHANGED <<CHECK_PARAMETERS, acc>>

CallTableIsValid(t) ==
    Checked("TableIsValid", <<t>>, TableIsValid(t), attached[t],
            <<"table", t>>, attached, valid)

CallRowIsValid(p) ==
    Checked("RowIsValid", <<p>>, RowIsValid(p), p # NULL /\ valid[p],
            IF p = NULL THEN <<>> ELSE <<"row", p>>, attached, valid)

\* TypeValid and ColIsNullable dereference pTable: their callers pass a
\* table that is attached.
CallTypeValid(t, col, type) ==
    /\ attached[t]
    /\ Checked("TypeValid", <<col, type>>, TypeValid(t, col, type), TRUE,
               <<>>, attached, valid)

CallColIsNullable(t, col) ==
    /\ attached[t]
    /\ Checked("ColIsNullable", <<col>>, ColIsNullable(t, col), TRUE,
               <<>>, attached, valid)

CallTABLE_VALID(t) ==
    Checked("TABLE_VALID", <<t>>, TABLE_VALID(t), attached[t],
            <<>>, attached, valid)

CallROW_VALID(p) ==
    Checked("ROW_VALID", <<p>>, ROW_VALID(p), p # NULL /\ valid[p],
            <<>>, attached, valid)

CallTYPE_VALID(t, col, type) ==
    /\ attached[t]
    /\ Checked("TYPE_VALID", <<col, type>>, TYPE_VALID(t, col, type), TRUE,
               <<>>, attached, valid)

CallCOL_NULLABLE(t, col) ==
    /\ attached[t]
    /\ Checked("COL_NULLABLE", <<col>>, COL_NULLABLE(t, col), TRUE,
               <<>>, attached, valid)

\* The engine, on another thread, deletes the row of an object: from then
\* on Obj::is_valid() (util.hpp line 140) answers false.
EngineDeletesObject(o) ==
    /\ valid[o]
    /\ valid' = [valid EXCEPT ![o] = FALSE]
    /\ UNCHANGED <<CHECK_PARAMETERS, attached, validated, acc, last>>

\* The engine removes a table: its TableRef (util.hpp line 131) turns empty.
EngineDetachesTable(t) ==
    /\ attached[t]
    /\ attached' = [attached EXCEPT ![t] = FALSE]
    /\ UNCHANGED <<CHECK_PARAMETERS, valid, validated, acc, last>>

EngineActs ==
    \/ \E o \in Objs : EngineDeletesObject(o)
    \/ \E t \in Tables : EngineDetachesTable(t)

\* The liveness checks, called while the engine deletes and detaches.
Init ==
    /\ CHECK_PARAMETERS = 1
    /\ attached = [t \in Tables |-> TRUE]
    /\ valid = [o \in Objs |-> TRUE]
    /\ validated = {}
    /\ acc = NullAccessor
    /\ last = NoCall

Next ==
    \/ \E t \in Tables : CallTableIsValid(t)
    \/ \E p \in RowPtrs : CallRowIsValid(p)
    \/ EngineActs

Spec == Init /\ [][Next]_vars

\* The column checks and the four macros, in a build with CHECK_PARAMETERS
\* set and in one without.
InitMacros ==
    /\ CHECK_PARAMETERS \in {0, 1}
    /\ attached = [t \in Tables |-> TRUE]
    /\ valid = [o \in Objs |-> TRUE]
    /\ validated = {}
    /\ acc = NullAccessor
    /\ last = NoCall

NextMacros ==
    \/ \E t \in Tables, col \in ColKeys, type \in ColTypes : CallTypeValid(t, col, type)
    \/ \E t \in Tables, col \in ColKeys : CallColIsNullable(t, col)
    \/ \E t \in Tables : CallTABLE_VALID(t)
    \/ \E p \in RowPtrs : CallROW_VALID(p)
    \/ \E t \in Tables, col \in ColKeys, type \in ColTypes : CallTYPE_VALID(t, col, type)
    \/ \E t \in Tables, col \in ColKeys : CallCOL_NULLABLE(t, col)
    \/ EngineActs

SpecMacros == InitMacros /\ [][NextMacros]_vars

(***************************************************************************)
(* JStringAccessor, util.hpp lines 208-249.  m_data is the transcoded      *)
(* buffer (its length is the allocated size), m_size the number of UTF-8   *)
(* bytes the transcoding wrote into it.                                    *)
(***************************************************************************)
Bytes == {0, 97}

RECURSIVE SeqsOfLen(_)
SeqsOfLen(n) ==
    IF n = 0 THEN {<<>>}
    ELSE {Append(s, b) : s \in SeqsOfLen(n - 1), b \in Bytes}

MaxSize == max_string_size + MaxOver

Accessors ==
    {NullAccessor} \cup
    UNION {UNION {{[m_is_null |-> FALSE, m_data |-> d, m_size |-> n] :
                      d \in SeqsOfLen(n + slack)} : slack \in 0..1} : n \in 0..MaxSize}

NullStringData == [is_null |-> TRUE, data |-> <<>>, size |-> 0]

\* realm::StringData(data, size): a view of `size' bytes from `data' on.
StringData(data, size) == [is_null |-> FALSE, data |-> SubSeq(data, 1, size), size |-> size]

\* std::string(data, size): a copy of `size' bytes.
StdString(data, size) == SubSeq(data, 1, size)

\* operator realm::StringData(), lines 216-234.  THROW_JAVA_EXCEPTION throws
\* a C++ exception: the conversion returns nothing.
operator_StringData_off_by_one(a) ==
    IF a.m_is_null
    THEN [returned |-> <<NullStringData>>, thrown |-> <<>>]
    ELSE IF a.m_size >= max_string_size
    THEN [returned |-> <<>>,
          thrown |-> <<[kind |-> IllegalArgument,
                        msg |-> <<"The length of 'String' value in UTF8 encoding is %1 which exceeds the max string length %2.",
                                  a.m_size, max_string_size>>]>>]
    ELSE [returned |-> <<StringData(a.m_data, a.m_size)>>, thrown |-> <<>>]

operator_StringData(a) ==
    IF a.m_is_null
    THEN [returned |-> <<NullStringData>>, thrown |-> <<>>]
    ELSE IF a.m_size > max_string_size
    THEN [returned |-> <<>>,
          thrown |-> <<[kind |-> IllegalArgument,
                        msg |-> <<"The length of 'String' value in UTF8 encoding is %1 which exceeds the max string length %2.",
                                  a.m_size, max_string_size>>]>>]
    ELSE [returned |-> <<StringData(a.m_data, a.m_size)>>, thrown |-> <<>>]

\* operator std::string(), lines 236-242.
operator_std_string(a) ==
    IF a.m_is_null
    THEN [returned |-> << <<>> >>, thrown |-> <<>>]
    ELSE [returned |-> <<StdString(a.m_data, a.m_size)>>, thrown |-> <<>>]

\* is_null_or_empty(), lines 212-214.
is_null_or_empty(a) == a.m_is_null \/ a.m_size = 0

ConvertedString(op, out) ==
    /\ last' = [op |-> op, out |-> out]
    /\ UNCHANGED <<CHECK_PARAMETERS, attached, valid, validated, acc>>

ToStringData == ConvertedString("operator StringData", operator_StringData(acc))

ToStdString == ConvertedString("operator std::string", operator_std_string(acc))

IsNullOrEmpty ==
    ConvertedString("is_null_or_empty",
                    [returned |-> <<is_null_or_empty(acc)>>, thrown |-> <<>>])

InitString ==
    /\ CHECK_PARAMETERS = 1
    /\ attached = [t \in Tables |-> TRUE]
    /\ valid = [o \in Objs |-> TRUE]
    /\ validated = {}
    /\ acc \in Accessors
    /\ last = [op |-> "none", out |-> [returned |-> <<>>, thrown |-> <<>>]]

NextString == ToStringData \/ ToStdString \/ IsNullOrEmpty

SpecString == InitString /\ [][NextString]_vars

(***************************************************************************)
(* Scalar helpers.  size_t and jlong are WordBits wide here; int32_t keeps *)
(* its range, which the nanoseconds of from_milliseconds never leave.      *)
(***************************************************************************)
RECURSIVE Pow2(_)
Pow2(n) == IF n = 0 THEN 1 ELSE 2 * Pow2(n - 1)

JLongMin == -Pow2(WordBits - 1)
JLongMax == Pow2(WordBits - 1) - 1
JLongs == JLongMin..JLongMax

\* realm::not_found, realm::npos: the largest size_t (line 116).
not_found == Pow2(WordBits) - 1
\* realm::ColKey(): value is uint64_t(-1) >> 1; operator bool compares with it.
ColKeyNull == JLongMax
\* realm::ObjKey(): value is -1; operator bool compares with it.
ObjKeyNull == -1

\* The positions the engine can return: below 2^(WordBits-1), or not_found.
IndexValues == (0..JLongMax) \cup {not_found}

\* The conversion jlong(x) of an unsigned or signed word.
jlong(x) ==
    LET m == x % Pow2(WordBits)
    IN  IF m > JLongMax THEN m - Pow2(WordBits) ELSE m

\* C++ integer division and remainder truncate towards zero.
CDiv(a, b) == IF a >= 0 THEN a \div b ELSE -((-a) \div b)
CRem(a, b) == a - CDiv(a, b) * b

\* to_jlong_or_not_found(size_t), lines 114-117.
to_jlong_or_not_found_size_t_zero(res) ==
    IF res = not_found \/ res = 0 THEN jlong(-1) ELSE jlong(res)

to_jlong_or_not_found_size_t(res) ==
    IF res = not_found THEN jlong(-1) ELSE jlong(res)

\* to_jlong_or_not_found(realm::ColKey), lines 119-122.
to_jlong_or_not_found_ColKey(key) ==
    IF key.value # ColKeyNull THEN jlong(key.value) ELSE jlong(-1)

\* to_jlong_or_not_found(realm::ObjKey), lines 124-127.
to_jlong_or_not_found_ObjKey(key) ==
    IF key.value # ObjKeyNull THEN jlong(key.value) ELSE jlong(-1)

\* realm::Timestamp(seconds, nanoseconds)
Timestamp(seconds, nanoseconds) == [seconds |-> seconds, nanoseconds |-> nanoseconds]

\* to_milliseconds, lines 251-259.
to_milliseconds_no_scale(ts) ==
    LET seconds == ts.seconds
        nanoseconds == ts.nanoseconds
    IN  jlong(seconds + CDiv(nanoseconds, 1000000))

to_milliseconds(ts) ==
    LET seconds == ts.seconds
        nanoseconds == ts.nanoseconds
    IN  jlong(seconds * 1000 + CDiv(nanoseconds, 1000000))

\* from_milliseconds, lines 261-267.
from_milliseconds_floor(milliseconds) ==
    LET seconds == CDiv(milliseconds, 1000)
        nanoseconds == (milliseconds % 1000) * 1000000
    IN  Timestamp(seconds, nanoseconds)

from_milliseconds(milliseconds) ==
    LET seconds == CDiv(milliseconds, 1000)
        nanoseconds == CRem(milliseconds, 1000) * 1000000
    IN  Timestamp(seconds, nanoseconds)

\* The argument of a conversion is fixed when the behaviour starts
\* (last.arg); each conversion applies its function to it.
Converted(op, ts, out) ==
    /\ last' = [op |-> op, arg |-> last.arg, ts |-> ts, out |-> out]
    /\ UNCHANGED <<CHECK_PARAMETERS, attached, valid, validated, acc>>

NoTimestamp == Timestamp(0, 0)

IndexToJlong ==
    /\ last.arg \in IndexValues
    /\ Converted("to_jlong_or_not_found(size_t)", NoTimestamp,
                 to_jlong_or_not_found_size_t(last.arg))

ColKeyToJlong ==
    /\ last.arg \in JLongs
    /\ Converted("to_jlong_or_not_found(ColKey)", NoTimestamp,
                 to_jlong_or_not_found_ColKey([value |-> last.arg]))

ObjKeyToJlong ==
    /\ last.arg \in JLongs
    /\ Converted("to_jlong_or_not_found(ObjKey)", NoTimestamp,
                 to_jlong_or_not_found_ObjKey([value |-> last.arg]))

\* A Java date goes into the engine as a Timestamp ...
FromMilliseconds ==
    /\ last.arg \in JLongs
    /\ Converted("from_milliseconds", from_milliseconds(last.arg), 0)

\* ... and the stored Timestamp comes back as milliseconds.
ToMilliseconds ==
    /\ last.op = "from_milliseconds"
    /\ Converted("to_milliseconds", last.ts, to_milliseconds(last.ts))

InitCodec ==
    /\ CHECK_PARAMETERS = 1
    /\ attached = [t \in Tables |-> TRUE]
    /\ valid = [o \in Objs |-> TRUE]
    /\ validated = {}
    /\ acc = NullAccessor
    /\ \E arg \in JLongs \cup IndexValues :
           last = [op |-> "none", arg |-> arg, ts |-> NoTimestamp, out |-> 0]

NextCodec ==
    \/ IndexToJlong
    \/ ColKeyToJlong
    \/ ObjKeyToJlong
    \/ FromMilliseconds
    \/ ToMilliseconds

SpecCodec == InitCodec /\ [][NextCodec]_vars

(***************************************************************************)
(* Properties.                                                             *)
(***************************************************************************)
RaisedOnce(out, kind) == Len(out.thrown) = 1 /\ out.thrown[1].kind = kind

Names(out, col) == \E i \in DOMAIN out.thrown[1].msg : out.thrown[1].msg[i] = Schema[col].name

\* C1: TableIsValid returns true and raises nothing for an attached table
\* reference; for an empty (detached) one it logs an error, raises
\* IllegalState and returns false.
C1_TableIsValidContract ==
    last.op = "TableIsValid" =>
        IF last.live
        THEN last.out.ret = TRUE /\ last.out.thrown = <<>>
        ELSE /\ last.out.ret = FALSE
             /\ Len(last.out.log) = 1
             /\ RaisedOnce(last.out, IllegalState)

\* C2: RowIsValid returns false and raises IllegalState exactly once for a
\* null handle or an object the engine reports invalid, returns true and
\* raises nothing for a non-null handle whose object is valid, and leaves
\* the engine's state as it was.
C2_RowIsValidContract ==
    last.op = "RowIsValid" =>
        /\ last.engineUnchanged
        /\ IF last.live
           THEN last.out.ret = TRUE /\ last.out.thrown = <<>>
           ELSE last.out.ret = FALSE /\ RaisedOnce(last.out, IllegalState)

C2_Witness ==
    /\ last.op = "RowIsValid"
    /\ last.args[1] # NULL
    /\ ~last.live
    /\ last.out.ret = FALSE
    /\ RaisedOnce(last.out, IllegalState)

\* C3: ColIsNullable returns true without exception for a link column
\* whatever its nullable attribute; raises IllegalArgument naming the column
\* and returns false for a link-list column and for every list column,
\* whatever the element type and the nullable attribute; for any other
\* column returns true iff the column is nullable and otherwise raises
\* IllegalArgument and returns false.  One exception per false result, none
\* per true result.
C3_ColIsNullablePolicy ==
    last.op = "ColIsNullable" =>
        LET col == last.args[1]
            c == Schema[col]
            out == last.out
        IN  /\ c.type = type_Link => out.ret = TRUE
            /\ (c.type = type_LinkList \/ c.list) =>
                   out.ret = FALSE /\ Names(out, col)
            /\ (c.type # type_Link /\ c.type # type_LinkList /\ ~c.list) =>
                   /\ out.ret = c.nullable
                   /\ ~c.nullable => Names(out, col)
            /\ IF out.ret THEN out.thrown = <<>>
               ELSE RaisedOnce(out, IllegalArgument)

C3_Witness ==
    /\ last.op = "ColIsNullable"
    /\ Schema[last.args[1]].type = type_String
    /\ Schema[last.args[1]].list
    /\ Schema[last.args[1]].nullable
    /\ last.out.ret = FALSE
    /\ RaisedOnce(last.out, IllegalArgument)

\* C4: with CHECK_PARAMETERS disabled, TYPE_VALID and COL_NULLABLE succeed
\* without raising and without a call into the engine, while TABLE_VALID and
\* ROW_VALID report a detached table or an invalid object under either
\* setting exactly as TableIsValid and RowIsValid do.
C4_OnlyTypeChecksAreGated ==
    /\ (CHECK_PARAMETERS = 0 /\ last.op \in {"TYPE_VALID", "COL_NULLABLE"}) =>
           /\ last.out.ret = TRUE
           /\ last.out.thrown = <<>>
           /\ last.out.queries = <<>>
    /\ last.op = "TABLE_VALID" =>
           IF last.live THEN last.out.thrown = <<>>
           ELSE RaisedOnce(last.out, IllegalState)
    /\ last.op = "ROW_VALID" =>
           IF last.live THEN last.out.ret = TRUE /\ last.out.thrown = <<>>
           ELSE last.out.ret = FALSE /\ RaisedOnce(last.out, IllegalState)

C4_Witness ==
    /\ CHECK_PARAMETERS = 0
    /\ last.op = "TYPE_VALID"
    /\ Schema[last.args[1]].type # last.args[2]
    /\ last.out.ret = TRUE
    /\ last.out.queries = <<>>

\* C5: for a non-null accessor whose m_size exceeds max_string_size the
\* conversion to StringData raises IllegalArgument and yields no view, while
\* the conversion to std::string succeeds and returns all m_size bytes; for
\* m_size at or below the maximum the StringData covers exactly the first
\* m_size bytes of the buffer.
C5_StringConversions ==
    ~acc.m_is_null =>
        /\ last.op = "operator StringData" =>
               IF acc.m_size > max_string_size
               THEN /\ last.out.returned = <<>>
                    /\ Len(last.out.thrown) = 1
                    /\ last.out.thrown[1].kind = IllegalArgument
               ELSE /\ last.out.thrown = <<>>
                    /\ Len(last.out.returned) = 1
                    /\ ~last.out.returned[1].is_null
                    /\ last.out.returned[1].size = acc.m_size
                    /\ Len(last.out.returned[1].data) = acc.m_size
                    /\ \A i \in 1..acc.m_size :
                           last.out.returned[1].data[i] = acc.m_data[i]
        /\ last.op = "operator std::string" =>
               /\ last.out.thrown = <<>>
               /\ Len(last.out.returned) = 1
               /\ Len(last.out.returned[1]) = acc.m_size
               /\ \A i \in 1..acc.m_size : last.out.returned[1][i] = acc.m_data[i]

C5_Witness ==
    /\ ~acc.m_is_null
    /\ acc.m_size > max_string_size
    /\ last.op = "operator std::string"
    /\ Len(last.out.returned) = 1
    /\ Len(last.out.returned[1]) = acc.m_size

\* C6: to_jlong_or_not_found maps not_found, the null ColKey and the null
\* ObjKey to -1 and every other index or key to its own value; 0 comes out
\* as 0.
C6_NotFoundIsMinusOne ==
    /\ last.op = "to_jlong_or_not_found(size_t)" =>
           last.out = IF last.arg = not_found THEN -1 ELSE last.arg
    /\ last.op = "to_jlong_or_not_found(ColKey)" =>
           last.out = IF last.arg = ColKeyNull THEN -1 ELSE last.arg
    /\ last.op = "to_jlong_or_not_found(ObjKey)" =>
           last.out = IF last.arg = ObjKeyNull THEN -1 ELSE last.arg

C6_Witness ==
    /\ last.op = "to_jlong_or_not_found(size_t)"
    /\ last.arg = 0
    /\ last.out = 0

\* C7: to_milliseconds(from_milliseconds(M)) = M for every M that is a
\* non-negative multiple of 1000, with seconds = M / 1000 and no nanoseconds
\* in between.
C7_RoundTripWholeSeconds ==
    (last.op = "to_milliseconds" /\ last.arg >= 0 /\ last.arg % 1000 = 0) =>
        /\ last.ts.seconds * 1000 = last.arg
        /\ last.ts.nanoseconds = 0
        /\ last.out = last.arg

C7_Witness ==
    /\ last.op = "to_milliseconds"
    /\ last.arg = 2000
    /\ last.out = 2000

\* C8 as stated: for a negative M that is not a multiple of 1000,
\* from_milliseconds gives a negative nanosecond component and
\* to_milliseconds(from_milliseconds(M)) differs from M.
C8_RoundTripBroken ==
    (last.op = "to_milliseconds" /\ last.arg < 0 /\ last.arg % 1000 # 0) =>
        /\ last.ts.nanoseconds < 0
        /\ last.out # last.arg

\* C8, amended: for a negative M that is not a multiple of 1000,
\* from_milliseconds gives a negative nanosecond component, and
\* to_milliseconds(from_milliseconds(M)) is M all the same.
C8_RoundTripNegative ==
    (last.op = "to_milliseconds" /\ last.arg < 0 /\ last.arg % 1000 # 0) =>
        /\ last.ts.nanoseconds < 0
        /\ last.out = last.arg

C8_Witness ==
    /\ last.op = "to_milliseconds"
    /\ last.arg = -1500
    /\ last.ts.nanoseconds = -500000000
    /\ last.out = -1500

\* C9: TypeValid returns true with no exception iff the column's type is
\* the expected one; on a mismatch it raises IllegalArgument once, naming
\* the column, and returns false; the engine's state is as it was.
C9_TypeValidContract ==
    last.op = "TypeValid" =>
        LET col == last.args[1]
            out == last.out
        IN  /\ last.engineUnchanged
            /\ out.ret = (Schema[col].type = last.args[2])
            /\ IF out.ret THEN out.thrown = <<>>
               ELSE RaisedOnce(out, IllegalArgument) /\ Names(out, col)

C9_Witness ==
    /\ last.op = "TypeValid"
    /\ Schema[last.args[1]].type = type_String
    /\ last.args[2] = type_Int
    /\ last.out.ret = FALSE
    /\ Names(last.out, last.args[1])

\* C10: a liveness check answers from the handle's liveness at the moment of
\* the call, whatever earlier checks answered: it raises IllegalState iff
\* the table is detached or the object invalid at that moment.
C10_LivenessNotCached ==
    last.op \in {"TableIsValid", "RowIsValid"} =>
        IF last.live THEN last.out.thrown = <<>>
        ELSE RaisedOnce(last.out, IllegalState)

C10_Witness ==
    /\ last.op = "RowIsValid"
    /\ <<"row", last.args[1]>> \in validated
    /\ ~last.live
    /\ RaisedOnce(last.out, IllegalState)

====
